---- MODULE Spec2Model ----
(***************************************************************************)
(* Model of Firmware/_daq_core/rtl_daq.c: the coherent multichannel        *)
(* RTL-SDR acquisition core.                                               *)
(*                                                                         *)
(* Threads: the coordinator (main, pc mpc), the control FIFO thread        *)
(* (fifo_read_tf, pc cpc), one reader thread per channel                   *)
(* (read_thread_entry, pc rpc[i]) whose blocking rtlsdr_read_async runs    *)
(* the callback rtlsdrCallback (pc cbpc[i]).                               *)
(*                                                                         *)
(* pthread semantics used: buff_ind_mutex is created with default          *)
(* attributes (line 490); with that mutex type neither pthread_mutex_unlock*)
(* nor the unlock inside pthread_cond_wait checks the owner, so calling    *)
(* pthread_cond_wait without holding the mutex (line 531, first iteration) *)
(* releases the mutex whoever locked it.  The variable mutex records the   *)
(* thread whose lock call succeeded last ("free" after any unlock).        *)
(* pthread_cond_signal wakes the coordinator only if it is waiting.        *)
(***************************************************************************)
EXTENDS Integers, Sequences, FiniteSets, TLC

\* ---- program constants ----
NUM_BUFF == 8
NO_DUMMY_FRAMES == 8

\* ---- bounds of the model ----
\* number of channels (config.num_ch, line 405)
ChNo == 2
\* IQ samples per block (config.daq_buffer_size, line 404)
DaqBufferSize == 1
\* horizon of the write counters in the ring scenarios
RingMaxBlock == 9
\* horizon of the write counters in the control scenarios
CtlMaxBlock == 10
\* largest producer lead (buff_ind - read_buff_ind) in the control scenarios
CtlMaxLead == 1
\* horizon of the write counters in the shutdown scenarios
ExitMaxBlock == 2
\* driver calls that may fail in one run of the shutdown scenarios
ExitMaxFaults == 0
\* horizon of the write counters in the driver-failure scenarios
FaultMaxBlock == 2
\* driver calls that may fail in one run of the driver-failure scenarios
FaultBudget == 1

\* horizon of the write counters in the retune scenarios
RetuneMaxBlock == 1
\* largest producer lead in the retune scenarios
RetuneMaxLead == 1
\* horizon of the write counters in the re-arm scenarios
RearmMaxBlock == 2
\* largest producer lead in the re-arm scenarios
RearmMaxLead == 2
\* blocks the device delivers in the quiet scenarios
QuietMaxBlock == 2
\* the history counter of configuration rounds stops here
MaxRound == 3
\* horizon of the write counters in the slow-writer scenarios
SlowMaxBlock == 2
\* largest producer lead in the slow-writer scenarios
SlowMaxLead == 1
\* blocks the device delivers in the noise-source scenarios: one dummy window
\* (NO_DUMMY_FRAMES frames) and the frame after it
NoiseMaxBlock == 9
\* largest producer lead in the noise-source scenarios
NoiseMaxLead == 1
\* horizon of the write counters in the control-channel scenarios
GpioMaxBlock == 2
\* largest producer lead in the control-channel scenarios
GpioMaxLead == 1
\* RTL-SDR devices attached to the host in the control-channel scenarios: one
\* more than there are channels
MaxDevices == 3

Chans == 0 .. (ChNo - 1)
Slots == 0 .. (NUM_BUFF - 1)

\* values of the configuration file and of the command payloads
ConfGain == 1
ConfFreq == 1
ConfRate == 1
RetuneGain == 2
RetuneFreq == 2
RetuneRate == 2
TuneFreq == 3
\* payload of 'g': one gain per channel
GainPayload == [i \in Chans |-> 3 + i]

\* buffer_size = config.daq_buffer_size*2
buffer_size == DaqBufferSize * 2

VARIABLES
  env,        \* the run's environment: horizon, lead bound, fault budget, device data, fopen result
  fifo,       \* commands still unread in the control FIFO
  unwritten,  \* payload reads of the last command in the FIFO that its writer has
              \* not yet supplied
  faults,     \* driver calls that have failed so far
  mutex,      \* buff_ind_mutex: "free", "main" or "ctl"
  woken,      \* buff_ind_cond: the waiting coordinator has been signalled
  mpc,        \* coordinator position
  mj,         \* loop index of the shutdown loop
  read_buff_ind, rd_buff_ind, overdrive_flags, iq_header, last_noise_source_state,
  cpc,        \* control thread position
  signal,     \* the command byte the control thread has read
  reconfig_trigger, exit_flag, noise_source_state, gain_change_flag, new_gains,
  new_center_freq, center_freq_change_flag, en_dummy_frame, dummy_frame_cntr,
  rtl_receivers,  \* per channel: gain, center_freq, sample_rate
  buff_ind,       \* per channel: rtl_rec->buff_ind
  buffer,         \* per channel, per slot: ordinal of the block stored (-1: never written)
  cbpc,       \* callback position per channel
  rpc,        \* reader thread position per channel
  barrier,    \* threads waiting in rtl_init_barrier
  dev,        \* tuner state per channel: what the driver has applied
  last,       \* the frame written last (history)
  win,        \* history of the stream: frames written, frames since the last latch,
              \* retune-restarts applied
  round       \* per channel: configurations the reader thread has completed (history)

latchVars == <<reconfig_trigger, exit_flag, noise_source_state, gain_change_flag, new_gains,
               new_center_freq, center_freq_change_flag, en_dummy_frame, dummy_frame_cntr>>
mainVars == <<mpc, mj, read_buff_ind, rd_buff_ind, overdrive_flags, iq_header,
              last_noise_source_state>>
ctlVars == <<cpc, signal, fifo>>
ringVars == <<buff_ind, buffer, cbpc>>
readerVars == <<rpc, barrier>>
histVars == <<last, win, round>>
vars == <<env, unwritten, faults, mutex, woken, mainVars, ctlVars, latchVars, rtl_receivers,
          ringVars, readerVars, dev, histVars>>

\* ---- the device data: block c of channel i contains a byte 0xFF iff <<i, c>> is hot ----
Hot(i, c) == <<i, c>> \in env.hot

Min(a, b) == IF a < b THEN a ELSE b

\* pthread_cond_signal(&buff_ind_cond)
Signalled == IF mpc = "waiting" THEN TRUE ELSE woken

\* a driver call may fail while the run's fault budget lasts
Outcomes == IF faults < env.maxfaults THEN {TRUE, FALSE} ELSE {TRUE}
\* per-channel results of one loop of driver calls
LoopOutcomes == {ok \in [Chans -> BOOLEAN] :
                   Cardinality({i \in Chans : ~ok[i]}) <= env.maxfaults - faults}
Failed(ok) == Cardinality({i \in DOMAIN ok : ~ok[i]})

\* ------------------------------------------------------------------------
\* rtlsdrCallback
\* ------------------------------------------------------------------------
\* int wr_buff_ind = rtl_rec->buff_ind % NUM_BUFF
WrBuffIndBug(c) == (c + 1) % NUM_BUFF
WrBuffInd(c) == c % NUM_BUFF

\* the control thread has read and latched every command of the script
Drained == fifo = <<>> /\ cpc = "read"

\* the driver calls the callback from inside rtlsdr_read_async; memcpy starts.
\* The device delivers blocks without end, or env.maxblock blocks and no more;
\* with env.cmd_first its first block comes after the commands have been latched.
CbBegin(i) ==
  /\ rpc[i] = "async" /\ cbpc[i] = "idle"
  /\ buff_ind[i] - read_buff_ind < env.maxlead
  /\ env.endless \/ buff_ind[i] < env.maxblock
  /\ env.cmd_first => (Drained \/ buff_ind[i] > 0)
  /\ cbpc' = [cbpc EXCEPT ![i] = "copying"]
  /\ UNCHANGED <<env, unwritten, faults, mutex, woken, mainVars, ctlVars, latchVars, rtl_receivers,
                 buff_ind, buffer, readerVars, dev, histVars>>

\* memcpy(rtl_rec->buffer + buffer_size * wr_buff_ind, buf, len) completes
CbCopy(i) ==
  /\ cbpc[i] = "copying"
  /\ buffer' = [buffer EXCEPT ![i][WrBuffInd(buff_ind[i])] = buff_ind[i]]
  /\ cbpc' = [cbpc EXCEPT ![i] = "copied"]
  /\ UNCHANGED <<env, unwritten, faults, mutex, woken, mainVars, ctlVars, latchVars, rtl_receivers,
                 buff_ind, readerVars, dev, histVars>>

\* rtl_rec->buff_ind++; pthread_cond_signal(&buff_ind_cond).  At the horizon
\* env.maxblock the device keeps delivering and signalling; the counter stays.
CbInc(i) ==
  /\ cbpc[i] = "copied"
  /\ buff_ind' = [buff_ind EXCEPT ![i] = Min(buff_ind[i] + 1, env.maxblock)]
  /\ woken' = Signalled
  /\ cbpc' = [cbpc EXCEPT ![i] = "idle"]
  /\ UNCHANGED <<env, unwritten, faults, mutex, mainVars, ctlVars, latchVars, rtl_receivers,
                 buffer, readerVars, dev, histVars>>

\* ------------------------------------------------------------------------
\* read_thread_entry
\* ------------------------------------------------------------------------
\* rtlsdr_set_dithering, rtlsdr_set_tuner_gain_mode (results only logged)
RInit(i) ==
  /\ rpc[i] = "init"
  /\ rpc' = [rpc EXCEPT ![i] = "loop"]
  /\ UNCHANGED <<env, unwritten, faults, mutex, woken, mainVars, ctlVars, latchVars, rtl_receivers,
                 ringVars, barrier, dev, histVars>>

\* while(!exit_flag)
RLoop(i) ==
  /\ rpc[i] = "loop"
  /\ rpc' = [rpc EXCEPT ![i] = IF exit_flag = 1 THEN "done" ELSE "config"]
  /\ UNCHANGED <<env, unwritten, faults, mutex, woken, mainVars, ctlVars, latchVars, rtl_receivers,
                 ringVars, barrier, dev, histVars>>

\* the tuner after set_center_freq, set_tuner_gain, set_sample_rate, set_gpio(dev,0,0)
\* with the receiver record r and the calls' results ok[1..3]
Configured(d, r, ok) ==
  [d EXCEPT !.freq = IF ok[1] THEN r.center_freq ELSE @,
            !.gain = IF ok[2] THEN r.gain ELSE @,
            !.rate = IF ok[3] THEN r.sample_rate ELSE @,
            !.gpio = 0]

RConfig(i) ==
  /\ rpc[i] = "config"
  /\ \E ok \in [1 .. 3 -> BOOLEAN] :
       /\ Failed(ok) <= env.maxfaults - faults
       /\ faults' = faults + Failed(ok)
       /\ dev' = [dev EXCEPT ![i] = Configured(dev[i], rtl_receivers[i], ok)]
       \* rtl_rec->center_freq = rtlsdr_get_center_freq(rtl_rec->dev)
       /\ rtl_receivers' = [rtl_receivers EXCEPT ![i].center_freq = dev'[i].freq]
  /\ round' = [round EXCEPT ![i] = Min(@ + 1, MaxRound)]
  /\ rpc' = [rpc EXCEPT ![i] = "arrive"]
  /\ UNCHANGED <<env, unwritten, mutex, woken, mainVars, ctlVars, latchVars, ringVars, barrier,
                 last, win>>

\* pthread_barrier_init(&rtl_init_barrier, NULL, ch_no)
BarrierCountBug == ChNo - 1
BarrierCount == ChNo

\* pthread_barrier_wait(&rtl_init_barrier): the ch_no-th arrival releases all
RBarrier(i) ==
  /\ rpc[i] = "arrive"
  /\ IF Cardinality(barrier \cup {i}) = BarrierCount
       THEN /\ rpc' = [j \in Chans |-> IF j \in barrier \cup {i} THEN "armed" ELSE rpc[j]]
            /\ barrier' = {}
       ELSE /\ rpc' = [rpc EXCEPT ![i] = "barrier"]
            /\ barrier' = barrier \cup {i}
  /\ UNCHANGED <<env, unwritten, faults, mutex, woken, mainVars, ctlVars, latchVars, rtl_receivers,
                 ringVars, dev, histVars>>

\* rtlsdr_read_async(dev, rtlsdrCallback, ...) starts streaming
RAsync(i) ==
  /\ rpc[i] = "armed"
  /\ rpc' = [rpc EXCEPT ![i] = "async"]
  /\ dev' = [dev EXCEPT ![i].cancel = FALSE]
  /\ UNCHANGED <<env, unwritten, faults, mutex, woken, mainVars, ctlVars, latchVars, rtl_receivers,
                 ringVars, barrier, histVars>>

\* rtlsdr_read_async returns once the read has been cancelled
RReturn(i) ==
  /\ rpc[i] = "async" /\ dev[i].cancel /\ cbpc[i] = "idle"
  /\ rpc' = [rpc EXCEPT ![i] = "loop"]
  /\ UNCHANGED <<env, unwritten, faults, mutex, woken, mainVars, ctlVars, latchVars, rtl_receivers,
                 ringVars, barrier, dev, histVars>>

\* ------------------------------------------------------------------------
\* fifo_read_tf
\* ------------------------------------------------------------------------
\* fopen(CFN, "r"); on failure: lock, exit_flag = 1, signal, unlock, return
CtlOpen ==
  /\ cpc = "open"
  /\ IF env.fifo_ok
       THEN /\ cpc' = "loop"
            /\ UNCHANGED <<exit_flag, woken>>
       ELSE /\ mutex = "free"
            /\ exit_flag' = 1
            /\ woken' = Signalled
            /\ cpc' = "done"
  /\ UNCHANGED <<env, unwritten, faults, mutex, mainVars, signal, fifo, reconfig_trigger,
                 noise_source_state, gain_change_flag, new_gains, new_center_freq,
                 center_freq_change_flag, en_dummy_frame, dummy_frame_cntr, rtl_receivers,
                 ringVars, readerVars, dev, histVars>>

\* while(!exit_flag) ... fclose(fd); return NULL
CtlLoop ==
  /\ cpc = "loop"
  /\ cpc' = IF exit_flag = 1 THEN "done" ELSE "read"
  /\ UNCHANGED <<env, unwritten, faults, mutex, woken, mainVars, signal, fifo, latchVars, rtl_receivers,
                 ringVars, readerVars, dev, histVars>>

\* fread(&signal, sizeof(signal), 1, fd) blocks until a command byte is there
CtlRead ==
  /\ cpc = "read" /\ fifo # <<>>
  /\ signal' = Head(fifo)
  /\ fifo' = Tail(fifo)
  /\ cpc' = "lock"
  /\ UNCHANGED <<env, unwritten, faults, mutex, woken, mainVars, latchVars, rtl_receivers, ringVars,
                 readerVars, dev, histVars>>

\* pthread_mutex_lock(&buff_ind_mutex)
CtlLock ==
  /\ cpc = "lock" /\ mutex = "free"
  /\ mutex' = "ctl"
  /\ cpc' = "dispatch"
  /\ UNCHANGED <<env, unwritten, faults, woken, mainVars, signal, fifo, latchVars, rtl_receivers,
                 ringVars, readerVars, dev, histVars>>

\* the receiver records after command 'r': every channel takes the payload
Retuned(recs) ==
  [i \in Chans |-> [gain |-> RetuneGain, center_freq |-> RetuneFreq,
                    sample_rate |-> RetuneRate]]

\* fread calls that follow the command byte inside its branch of the chain
PayloadReads(c) == CASE c = "r" -> 3
                     [] c = "c" -> 1
                     [] c = "g" -> 1
                     [] OTHER -> 0

\* the control thread is inside a branch whose fread has no data to return yet
AwaitsPayload == cpc = "dispatch" /\ PayloadReads(signal) > 0 /\ fifo = <<>> /\ unwritten > 0

\* the if / else if chain on the command byte; any other byte matches no branch.
\* The fread calls of the branches r, c, g block until the payload is in the pipe
CtlDispatch ==
  /\ cpc = "dispatch"
  /\ ~AwaitsPayload
  /\ rtl_receivers' = IF signal = "r" THEN Retuned(rtl_receivers) ELSE rtl_receivers
  /\ reconfig_trigger' = IF signal = "r" THEN 1 ELSE reconfig_trigger
  /\ new_center_freq' = IF signal = "c" THEN TuneFreq ELSE new_center_freq
  /\ center_freq_change_flag' = IF signal = "c" THEN 1 ELSE center_freq_change_flag
  /\ new_gains' = IF signal = "g" THEN GainPayload ELSE new_gains
  /\ gain_change_flag' = IF signal = "g" THEN 1 ELSE gain_change_flag
  /\ noise_source_state' = CASE signal = "n" -> 1
                             [] signal = "f" -> 0
                             [] OTHER -> noise_source_state
  /\ exit_flag' = IF signal = "2" THEN 1 ELSE exit_flag
  /\ cpc' = "dummy"
  /\ UNCHANGED <<env, unwritten, faults, mutex, woken, mainVars, signal, fifo, en_dummy_frame,
                 dummy_frame_cntr, ringVars, readerVars, dev, histVars>>

\* en_dummy_frame = 1; dummy_frame_cntr = 0
CtlDummy ==
  /\ cpc = "dummy"
  /\ en_dummy_frame' = 1
  /\ dummy_frame_cntr' = 0
  /\ win' = [win EXCEPT !.cmd = IF signal \in {"r", "c", "g", "n", "f"} THEN 0 ELSE @,
                        !.any = 0,
                        !.pend = Min(@ + 1, 2)]
  /\ cpc' = "unlock"
  /\ UNCHANGED <<env, unwritten, faults, mutex, woken, mainVars, signal, fifo, reconfig_trigger,
                 exit_flag, noise_source_state, gain_change_flag, new_gains, new_center_freq,
                 center_freq_change_flag, rtl_receivers, ringVars, readerVars, dev, last,
                 round>>

\* pthread_cond_signal(&buff_ind_cond); pthread_mutex_unlock(&buff_ind_mutex)
CtlUnlock ==
  /\ cpc = "unlock"
  /\ woken' = Signalled
  /\ mutex' = "free"
  /\ cpc' = "loop"
  /\ UNCHANGED <<env, unwritten, faults, mainVars, signal, fifo, latchVars, rtl_receivers, ringVars,
                 readerVars, dev, histVars>>

\* ------------------------------------------------------------------------
\* main: the acquisition loop
\* ------------------------------------------------------------------------
\* what a read of slot s of channel i can return: the stored block, any bytes
\* for a slot never written (malloc'ed memory), and a mix of the old and the new
\* block while the callback's memcpy into that slot is under way.
\*   blk: ordinal of the block, torn: read during memcpy, ff: a byte is 0xFF
SlotReads(i, s) ==
  IF cbpc[i] = "copying" /\ WrBuffInd(buff_ind[i]) = s
    THEN {[blk |-> buff_ind[i], torn |-> TRUE, ff |-> b] :
            b \in IF buffer[i][s] = -1 \/ Hot(i, buffer[i][s]) \/ Hot(i, buff_ind[i])
                    THEN BOOLEAN ELSE {FALSE}}
    ELSE IF buffer[i][s] = -1
      THEN {[blk |-> -1, torn |-> FALSE, ff |-> b] : b \in BOOLEAN}
      ELSE {[blk |-> buffer[i][s], torn |-> FALSE, ff |-> Hot(i, buffer[i][s])]}

\* while( !exit_flag )
LoopExitBug(ef) == FALSE
LoopExit(ef) == ef # 0

MLoop ==
  /\ mpc = "loop"
  /\ mpc' = IF LoopExit(exit_flag) THEN "exit" ELSE "wait"
  /\ mj' = 0
  /\ UNCHANGED <<env, unwritten, faults, mutex, woken, read_buff_ind, rd_buff_ind, overdrive_flags,
                 iq_header, last_noise_source_state, ctlVars, latchVars, rtl_receivers,
                 ringVars, readerVars, dev, histVars>>

\* pthread_cond_wait(&buff_ind_cond, &buff_ind_mutex): unlock and wait
MWait ==
  /\ mpc = "wait"
  /\ mutex' = "free"
  /\ woken' = FALSE
  /\ mpc' = "waiting"
  /\ UNCHANGED <<env, unwritten, faults, mj, read_buff_ind, rd_buff_ind, overdrive_flags, iq_header,
                 last_noise_source_state, ctlVars, latchVars, rtl_receivers, ringVars,
                 readerVars, dev, histVars>>

\* pthread_cond_wait returns: signalled, mutex locked again
MWake ==
  /\ mpc = "waiting" /\ woken /\ mutex = "free"
  /\ mutex' = "main"
  /\ mpc' = "check"
  /\ UNCHANGED <<env, unwritten, faults, woken, mj, read_buff_ind, rd_buff_ind, overdrive_flags,
                 iq_header, last_noise_source_state, ctlVars, latchVars, rtl_receivers,
                 ringVars, readerVars, dev, histVars>>

\* data_ready: no channel has rtl_rec->buff_ind <= read_buff_ind
DataReady(bi, r) == \A i \in Chans : ~(bi[i] <= r)

MCheck ==
  /\ mpc = "check"
  /\ mpc' = IF DataReady(buff_ind, read_buff_ind) THEN "hdr" ELSE "loop"
  /\ UNCHANGED <<env, unwritten, faults, mutex, woken, mj, read_buff_ind, rd_buff_ind, overdrive_flags,
                 iq_header, last_noise_source_state, ctlVars, latchVars, rtl_receivers,
                 ringVars, readerVars, dev, histVars>>

\* iq_header->daq_block_index = (uint32_t) read_buff_ind: the cast keeps every
\* value below 2^32, which is beyond the integers of the model checker and far
\* beyond the horizon of the counters here
BlockIndexBug(r) == r + 1
BlockIndex(r) == r

\* lines 546-562: block index, centre frequency, gains, overdrive scan of the
\* slot rd_buff_ind of every channel; overdrive_flags is a uint8_t bit set
MHeader ==
  /\ mpc = "hdr"
  /\ \E see \in [Chans -> BOOLEAN] :
       /\ \A i \in Chans : see[i] \in {x.ff : x \in SlotReads(i, rd_buff_ind)}
       /\ overdrive_flags' = overdrive_flags \cup {i \in Chans : see[i] /\ i < 8}
  /\ iq_header' = [iq_header EXCEPT
                     !.daq_block_index = BlockIndex(read_buff_ind),
                     !.rf_center_freq = rtl_receivers[ChNo - 1].center_freq,
                     !.if_gains = [i \in Chans |-> rtl_receivers[i].gain],
                     !.adc_overdrive_flags = overdrive_flags']
  /\ mpc' = "hdr_noise"
  /\ UNCHANGED <<env, unwritten, faults, mutex, woken, mj, read_buff_ind, rd_buff_ind,
                 last_noise_source_state, ctlVars, latchVars, rtl_receivers, ringVars,
                 readerVars, dev, histVars>>

\* iq_header->noise_source_state = (uint32_t) noise_source_state
MHdrNoise ==
  /\ mpc = "hdr_noise"
  /\ iq_header' = [iq_header EXCEPT !.noise_source_state = noise_source_state]
  /\ mpc' = "hdr_type"
  /\ UNCHANGED <<env, unwritten, faults, mutex, woken, mj, read_buff_ind, rd_buff_ind, overdrive_flags,
                 last_noise_source_state, ctlVars, latchVars, rtl_receivers, ringVars,
                 readerVars, dev, histVars>>

\* lines 565-583: frame_type, data_type, cpi_length
FrameFields(h, en, nss) ==
  IF en # 0
    THEN [h EXCEPT !.frame_type = "DUMMY", !.data_type = 0, !.cpi_length = 0]
    ELSE [h EXCEPT !.cpi_length = DaqBufferSize, !.data_type = 1,
                   !.frame_type = IF nss = 1 THEN "CAL" ELSE "DATA"]

MHdrType ==
  /\ mpc = "hdr_type"
  /\ iq_header' = FrameFields(iq_header, en_dummy_frame, noise_source_state)
  /\ mpc' = "send"
  /\ UNCHANGED <<env, unwritten, faults, mutex, woken, mj, read_buff_ind, rd_buff_ind, overdrive_flags,
                 last_noise_source_state, ctlVars, latchVars, rtl_receivers, ringVars,
                 readerVars, dev, histVars>>

\* rd_buff_ind = read_buff_ind % NUM_BUFF
RdBuffIndBug(r) == (r + 1) % NUM_BUFF
RdBuffInd(r) == r % NUM_BUFF

Bump(n) == IF n < 0 THEN n ELSE Min(n + 1, NO_DUMMY_FRAMES + 1)

\* lines 585-602: fwrite of the header, then, if en_dummy_frame == 0, of the
\* slot read_buff_ind % NUM_BUFF of every channel in channel order
MSend ==
  /\ mpc = "send"
  /\ \E pay \in [Chans -> UNION {SlotReads(i, RdBuffInd(read_buff_ind)) : i \in Chans}] :
       /\ \A i \in Chans : pay[i] \in SlotReads(i, RdBuffInd(read_buff_ind))
       /\ last' = [seq |-> win.frames,
                   hdr |-> iq_header,
                   payload |-> IF en_dummy_frame = 0 THEN pay ELSE <<>>,
                   octets |-> IF en_dummy_frame = 0 THEN ChNo * buffer_size ELSE 0,
                   inring |-> \A i \in Chans : buff_ind[i] < read_buff_ind + NUM_BUFF,
                   tuner |-> [i \in Chans |-> dev[i].gain],
                   cmd |-> win.cmd,
                   any |-> win.any,
                   burst |-> IF win.any = 0 THEN win.pend ELSE win.burst]
  /\ rd_buff_ind' = IF en_dummy_frame = 0 THEN RdBuffInd(read_buff_ind) ELSE rd_buff_ind
  /\ win' = [frames |-> win.frames + 1,
             cmd |-> Bump(win.cmd),
             any |-> Bump(win.any),
             pend |-> 0,
             burst |-> IF win.any = 0 THEN win.pend ELSE win.burst,
             afterexit |-> IF exit_flag # 0 THEN Min(win.afterexit + 1, 2)
                           ELSE win.afterexit,
             early |-> win.early,
             rt |-> win.rt,
             both |-> win.both]
  /\ mpc' = "post"
  /\ UNCHANGED <<env, unwritten, faults, mutex, woken, mj, read_buff_ind, overdrive_flags, iq_header,
                 last_noise_source_state, ctlVars, latchVars, rtl_receivers, ringVars,
                 readerVars, dev, round>>

\* lines 603-615: fflush; overdrive_flags = 0; read_buff_ind++; the dummy counter
MPost ==
  /\ mpc = "post"
  /\ overdrive_flags' = {}
  /\ read_buff_ind' = read_buff_ind + 1
  /\ IF en_dummy_frame # 0
       THEN /\ dummy_frame_cntr' = dummy_frame_cntr + 1
            /\ en_dummy_frame' = IF dummy_frame_cntr' = NO_DUMMY_FRAMES THEN 0
                                 ELSE en_dummy_frame
       ELSE UNCHANGED <<dummy_frame_cntr, en_dummy_frame>>
  /\ mpc' = "apply"
  /\ UNCHANGED <<env, unwritten, faults, mutex, woken, mj, rd_buff_ind, iq_header,
                 last_noise_source_state, ctlVars, reconfig_trigger, exit_flag,
                 noise_source_state, gain_change_flag, new_gains, new_center_freq,
                 center_freq_change_flag, rtl_receivers, ringVars, readerVars, dev, histVars>>

\* rtlsdr_cancel_async: a running asynchronous read is told to stop
Cancelled(d, running, ok) == IF ok /\ running THEN [d EXCEPT !.cancel = TRUE] ELSE d

AllOk == [i \in Chans |-> TRUE]

\* lines 622-634: retune-restart: the asynchronous read of every channel is
\* cancelled, a failure is only logged
MApply ==
  /\ mpc = "apply"
  /\ \E okc \in LoopOutcomes :
       /\ reconfig_trigger # 1 => okc = AllOk
       /\ faults' = faults + Failed(okc)
       /\ dev' = IF reconfig_trigger = 1
                   THEN [i \in Chans |-> Cancelled(dev[i], rpc[i] = "async", okc[i])]
                   ELSE dev
  /\ win' = IF reconfig_trigger = 1
              THEN [win EXCEPT !.early = @ \/ win.cmd < 1, !.rt = Min(@ + 1, 2),
                               !.both = @ \/ center_freq_change_flag = 1
                                          \/ gain_change_flag = 1]
              ELSE win
  /\ reconfig_trigger' = IF reconfig_trigger = 1 THEN 0 ELSE reconfig_trigger
  /\ mpc' = "tune"
  /\ UNCHANGED <<env, unwritten, mutex, woken, mj, read_buff_ind, rd_buff_ind, overdrive_flags,
                 iq_header, last_noise_source_state, ctlVars, exit_flag, noise_source_state,
                 gain_change_flag, new_gains, new_center_freq, center_freq_change_flag,
                 en_dummy_frame, dummy_frame_cntr, rtl_receivers, ringVars, readerVars, last,
                 round>>

\* if (last_noise_source_state != noise_source_state && config.en_noise_source_ctr==1)
NoiseChange == last_noise_source_state # noise_source_state /\ env.en_noise_source_ctr = 1

\* the hot part of the control step has a request to apply to a tuner
TunePending ==
  \/ center_freq_change_flag = 1 \/ gain_change_flag = 1
  \/ NoiseChange

\* the indices of rtl_receivers whose record is dereferenced on a noise-source
\* change: &rtl_receivers[ctr_channel_dev_index] and, if ch_no > 4, &rtl_receivers[7]
NoiseRecords(ch, ctr) == {ctr} \cup (IF ch > 4 THEN {7} ELSE {})

\* rtl_receivers is an array of ch_no records: rtl_rec->dev of an index outside it
\* is whatever lies behind the array, and rtlsdr_set_gpio on it either ends the
\* process (mpc "fault") or returns without reaching a tuner
GpioOutcomes(ch, ctr) ==
  IF NoiseRecords(ch, ctr) \subseteq 0 .. (ch - 1) THEN {"loop"} ELSE {"loop", "fault"}

\* lines 635-696: centre frequency, gains, noise source
MTune ==
  /\ mpc = "tune"
  /\ \E okf \in LoopOutcomes, okg \in LoopOutcomes :
       /\ center_freq_change_flag # 1 => okf = AllOk
       /\ gain_change_flag # 1 => okg = AllOk
       /\ Failed(okf) + Failed(okg) <= env.maxfaults - faults
       /\ faults' = faults + Failed(okf) + Failed(okg)
       /\ LET d2 == IF center_freq_change_flag = 1
                      THEN [i \in Chans |->
                              IF okf[i] THEN [dev[i] EXCEPT !.freq = new_center_freq]
                              ELSE dev[i]]
                      ELSE dev
              d3 == IF gain_change_flag = 1
                      THEN [i \in Chans |->
                              IF okg[i] THEN [d2[i] EXCEPT !.gain = new_gains[i]] ELSE d2[i]]
                      ELSE d2
              d4 == IF NoiseChange
                      THEN [i \in Chans |->
                              IF i \in NoiseRecords(ChNo, env.ctr_channel_dev_index)
                                THEN [d3[i] EXCEPT !.gpio = noise_source_state]
                                ELSE d3[i]]
                      ELSE d3
          IN /\ dev' = d4
             /\ rtl_receivers' =
                  [i \in Chans |->
                     [rtl_receivers[i] EXCEPT
                        !.center_freq = IF center_freq_change_flag = 1 /\ okf[i]
                                          THEN d2[i].freq ELSE @,
                        !.gain = IF gain_change_flag = 1 /\ okg[i] THEN new_gains[i] ELSE @]]
  /\ win' = IF TunePending
              THEN [win EXCEPT !.early = @ \/ win.cmd < 1]
              ELSE win
  /\ center_freq_change_flag' = IF center_freq_change_flag = 1 THEN 0
                                ELSE center_freq_change_flag
  /\ gain_change_flag' = IF gain_change_flag = 1 THEN 0 ELSE gain_change_flag
  /\ last_noise_source_state' = noise_source_state
  /\ mpc' \in IF NoiseChange THEN GpioOutcomes(ChNo, env.ctr_channel_dev_index)
              ELSE {"loop"}
  /\ UNCHANGED <<env, unwritten, mutex, woken, mj, read_buff_ind, rd_buff_ind, overdrive_flags,
                 iq_header, ctlVars, reconfig_trigger, exit_flag, noise_source_state,
                 new_gains, new_center_freq, en_dummy_frame, dummy_frame_cntr, ringVars,
                 readerVars, last, round>>

\* ------------------------------------------------------------------------
\* main: shutdown
\* ------------------------------------------------------------------------
\* rtlsdr_cancel_async(rtl_rec->dev) != 0 -> return -1
MCancel ==
  /\ mpc = "exit"
  /\ \E ok \in Outcomes :
       /\ faults' = IF ok THEN faults ELSE faults + 1
       /\ dev' = [dev EXCEPT ![mj] = Cancelled(@, rpc[mj] = "async", ok)]
       /\ mpc' = IF ok THEN "join" ELSE "aborted"
  /\ UNCHANGED <<env, unwritten, mutex, woken, mj, read_buff_ind, rd_buff_ind, overdrive_flags,
                 iq_header, last_noise_source_state, ctlVars, latchVars, rtl_receivers,
                 ringVars, readerVars, histVars>>

\* pthread_join(rtl_rec->async_read_thread, NULL); free(rtl_rec->buffer)
MJoin ==
  /\ mpc = "join" /\ rpc[mj] = "done"
  /\ mj' = mj + 1
  /\ mpc' = IF mj + 1 < ChNo THEN "exit" ELSE "unlock"
  /\ UNCHANGED <<env, unwritten, faults, mutex, woken, read_buff_ind, rd_buff_ind, overdrive_flags,
                 iq_header, last_noise_source_state, ctlVars, latchVars, rtl_receivers,
                 ringVars, readerVars, dev, histVars>>

\* pthread_mutex_unlock(&buff_ind_mutex)
MUnlock ==
  /\ mpc = "unlock"
  /\ mutex' = "free"
  /\ mpc' = "joinctl"
  /\ UNCHANGED <<env, unwritten, faults, woken, mj, read_buff_ind, rd_buff_ind, overdrive_flags,
                 iq_header, last_noise_source_state, ctlVars, latchVars, rtl_receivers,
                 ringVars, readerVars, dev, histVars>>

\* pthread_join(fifo_read_thread, NULL); free(rtl_receivers); return 0
MJoinCtl ==
  /\ mpc = "joinctl" /\ cpc = "done"
  /\ mpc' = "returned"
  /\ UNCHANGED <<env, unwritten, faults, mutex, woken, mj, read_buff_ind, rd_buff_ind, overdrive_flags,
                 iq_header, last_noise_source_state, ctlVars, latchVars, rtl_receivers,
                 ringVars, readerVars, dev, histVars>>

\* ------------------------------------------------------------------------
\* the process at the other end of the control FIFO
\* ------------------------------------------------------------------------
\* it writes the next payload word of the command byte it wrote last
WriterPayload ==
  /\ unwritten > 0
  /\ unwritten' = unwritten - 1
  /\ UNCHANGED <<env, faults, mutex, woken, mainVars, ctlVars, latchVars, rtl_receivers,
                 ringVars, readerVars, dev, histVars>>

\* ------------------------------------------------------------------------
\* initial state: main has reached the acquisition loop (lines 395-518); the
\* control thread and the reader threads have been created and not yet run
\* ------------------------------------------------------------------------
NoFrame ==
  [seq |-> -1, hdr |-> <<>>, payload |-> <<>>, octets |-> 0, inring |-> TRUE,
   tuner |-> <<>>, cmd |-> -1, any |-> -1, burst |-> 0]

InitBase(e, script) ==
  /\ env = e
  /\ fifo = script
  /\ faults = 0
  /\ mutex = "free"
  /\ woken = FALSE
  /\ mpc = "loop"
  /\ mj = 0
  /\ read_buff_ind = 0
  /\ rd_buff_ind = 1
  /\ overdrive_flags = {}
  /\ iq_header = [active_ant_chs |-> ChNo, rf_center_freq |-> ConfFreq,
                  cpi_length |-> DaqBufferSize, daq_block_index |-> 0,
                  frame_type |-> "DATA", data_type |-> 2, adc_overdrive_flags |-> {},
                  if_gains |-> [i \in Chans |-> ConfGain], noise_source_state |-> 0]
  /\ last_noise_source_state = 0
  /\ cpc = "open"
  /\ signal = "none"
  /\ reconfig_trigger = 0
  /\ exit_flag = 0
  /\ noise_source_state = 0
  /\ gain_change_flag = 0
  /\ new_gains = [i \in Chans |-> 0]
  /\ new_center_freq = 0
  /\ center_freq_change_flag = 0
  /\ en_dummy_frame = 0
  /\ dummy_frame_cntr = 0
  /\ rtl_receivers = [i \in Chans |-> [gain |-> ConfGain, center_freq |-> ConfFreq,
                                       sample_rate |-> ConfRate]]
  /\ buff_ind = [i \in Chans |-> 0]
  /\ buffer = [i \in Chans |-> [s \in Slots |-> -1]]
  /\ cbpc = [i \in Chans |-> "idle"]
  /\ rpc = [i \in Chans |-> "init"]
  /\ barrier = {}
  /\ dev = [i \in Chans |-> [freq |-> 0, gain |-> 0, rate |-> 0, gpio |-> 0,
                             cancel |-> FALSE]]
  /\ last = NoFrame
  /\ win = [frames |-> 0, cmd |-> -1, any |-> -1, pend |-> 0, burst |-> 0, afterexit |-> 0,
            early |-> FALSE, rt |-> 0, both |-> FALSE]
  /\ round = [i \in Chans |-> 0]

\* the whole script, payloads included, is in the FIFO before the program reads it
InitWith(e, script) == InitBase(e, script) /\ unwritten = 0

\* ring scenarios: no command arrives, the producers may run a whole ring ahead
RingHot == {{}, {<<0, 0>>}, {<<0, 1>>, <<1, 0>>}}
RingEnv == {[maxblock |-> RingMaxBlock, maxlead |-> RingMaxBlock + 1, maxfaults |-> 0,
             hot |-> h, fifo_ok |-> TRUE, en_noise_source_ctr |-> 1,
             ctr_channel_dev_index |-> 0,
             endless |-> TRUE, cmd_first |-> FALSE] : h \in RingHot}
InitRing == \E e \in RingEnv : InitWith(e, <<>>)

\* control scenarios: a script of commands, the producers stay close to the consumer
CtlScripts == {<<"n">>, <<"n", "f">>, <<"g">>, <<"c">>, <<"u">>}
CtlEnv == [maxblock |-> CtlMaxBlock, maxlead |-> CtlMaxLead, maxfaults |-> 0,
           hot |-> {}, fifo_ok |-> TRUE, en_noise_source_ctr |-> 1,
           ctr_channel_dev_index |-> 0,
             endless |-> TRUE, cmd_first |-> FALSE]
InitCtl == \E sc \in CtlScripts : InitWith(CtlEnv, sc)

\* shutdown scenarios
ExitScripts == {<<"2">>}
ExitEnv == {[maxblock |-> ExitMaxBlock, maxlead |-> ExitMaxBlock + 1,
             maxfaults |-> ExitMaxFaults, hot |-> {}, fifo_ok |-> ok,
             en_noise_source_ctr |-> 1, ctr_channel_dev_index |-> 0,
             endless |-> TRUE, cmd_first |-> FALSE] : ok \in BOOLEAN}
InitExit == \E e \in ExitEnv, sc \in ExitScripts : InitWith(e, sc)

\* driver-failure scenarios: a graceful shutdown during which driver calls may fail
FaultEnv == [maxblock |-> FaultMaxBlock, maxlead |-> FaultMaxBlock + 1,
             maxfaults |-> FaultBudget, hot |-> {}, fifo_ok |-> TRUE,
             en_noise_source_ctr |-> 1, ctr_channel_dev_index |-> 0,
             endless |-> TRUE, cmd_first |-> FALSE]
InitFault == InitWith(FaultEnv, <<"2">>)

\* retune scenarios: a retune-restart followed by a second request (which the
\* control thread may read at any later time)
RetuneScripts == {<<"r", "c">>, <<"r", "g">>}
RetuneEnv == [maxblock |-> RetuneMaxBlock, maxlead |-> RetuneMaxLead, maxfaults |-> 0,
              hot |-> {}, fifo_ok |-> TRUE, en_noise_source_ctr |-> 1,
              ctr_channel_dev_index |-> 0,
             endless |-> FALSE, cmd_first |-> FALSE]
InitRetune == \E sc \in RetuneScripts : InitWith(RetuneEnv, sc)

\* re-arm scenarios: two retune-restarts, the device delivers RearmMaxBlock blocks
RearmEnv == [maxblock |-> RearmMaxBlock, maxlead |-> RearmMaxLead, maxfaults |-> 0,
             hot |-> {}, fifo_ok |-> TRUE, en_noise_source_ctr |-> 1,
             ctr_channel_dev_index |-> 0,
             endless |-> FALSE, cmd_first |-> FALSE]
InitRearm == InitWith(RearmEnv, <<"r", "r">>)

\* quiet scenarios: no command arrives and the device delivers QuietMaxBlock
\* blocks per channel and then nothing more
QuietEnv == [maxblock |-> QuietMaxBlock, maxlead |-> QuietMaxBlock, maxfaults |-> 0,
             hot |-> {}, fifo_ok |-> TRUE, en_noise_source_ctr |-> 1,
             ctr_channel_dev_index |-> 0,
             endless |-> FALSE, cmd_first |-> FALSE]
InitQuiet == InitWith(QuietEnv, <<>>)

\* slow-writer scenarios: the command byte of one r, c or g is in the FIFO, its
\* payload words are written later, one at a time
SlowScripts == {<<"r">>, <<"c">>, <<"g">>}
SlowEnv == [maxblock |-> SlowMaxBlock, maxlead |-> SlowMaxLead, maxfaults |-> 0,
            hot |-> {}, fifo_ok |-> TRUE, en_noise_source_ctr |-> 1,
            ctr_channel_dev_index |-> 0,
             endless |-> TRUE, cmd_first |-> FALSE]
InitSlow == \E sc \in SlowScripts :
              InitBase(SlowEnv, sc) /\ unwritten = PayloadReads(sc[Len(sc)])

\* noise-source scenarios: the noise source is switched on and a retune-restart
\* follows; both commands are latched before the device delivers its first block
NoiseEnv == [maxblock |-> NoiseMaxBlock, maxlead |-> NoiseMaxLead, maxfaults |-> 0,
             hot |-> {}, fifo_ok |-> TRUE, en_noise_source_ctr |-> 1,
             ctr_channel_dev_index |-> 0,
             endless |-> FALSE, cmd_first |-> TRUE]
InitNoise == InitWith(NoiseEnv, <<"n", "r">>)

\* lines 436-444: what rtlsdr_get_index_by_serial returns for the configured
\* serial number of the control channel is the index, -3 is replaced by 0
CtrChannelDevIndex(res) == IF res = -3 THEN 0 ELSE res

\* control-channel scenarios: the serial number of the control channel is that
\* of any attached device or of none; the noise source is switched on
SerialResults == {-3} \cup (0 .. (MaxDevices - 1))
GpioEnv == {[maxblock |-> GpioMaxBlock, maxlead |-> GpioMaxLead, maxfaults |-> 0,
             hot |-> {}, fifo_ok |-> TRUE, en_noise_source_ctr |-> 1,
             ctr_channel_dev_index |-> CtrChannelDevIndex(res),
             endless |-> FALSE, cmd_first |-> FALSE] : res \in SerialResults}
InitGpio == \E e \in GpioEnv : InitWith(e, <<"n">>)

Init == InitRing \/ InitCtl \/ InitExit

Callback == \E i \in Chans : CbBegin(i) \/ CbCopy(i) \/ CbInc(i)
Startup == \E i \in Chans : RInit(i) \/ RLoop(i) \/ RConfig(i) \/ RBarrier(i) \/ RAsync(i)
Restart == \E i \in Chans : RReturn(i)
Control == CtlRead \/ CtlLock \/ CtlDispatch \/ CtlDummy \/ CtlUnlock
Coordinator == MLoop \/ MWait \/ MWake \/ MCheck \/ MHeader \/ MHdrNoise \/ MHdrType
               \/ MSend \/ MPost \/ MApply \/ MTune
Shutdown == MCancel \/ MJoin \/ MUnlock \/ MJoinCtl

NextRing == Callback \/ Startup \/ CtlOpen \/ CtlLoop \/ Coordinator
NextHot == NextRing \/ Control
NextCtl == NextHot \/ Restart
Next == NextCtl \/ Shutdown

SpecRing == InitRing /\ [][NextRing]_vars
SpecCtl == InitCtl /\ [][NextHot]_vars
SpecExit == InitExit /\ [][Next]_vars
Spec == Init /\ [][Next]_vars
SpecFault == InitFault /\ [][Next]_vars
SpecRetune == InitRetune /\ [][NextCtl]_vars

\* scheduling: every thread that can take a step eventually takes one; the
\* device keeps delivering blocks while an asynchronous read is running
ReaderThread(i) == RInit(i) \/ RLoop(i) \/ RConfig(i) \/ RBarrier(i) \/ RAsync(i)
                   \/ RReturn(i) \/ CbBegin(i) \/ CbCopy(i) \/ CbInc(i)
Fairness ==
  /\ WF_vars(Coordinator \/ Shutdown)
  /\ WF_vars(CtlOpen \/ CtlLoop \/ Control)
  /\ \A i \in Chans : WF_vars(ReaderThread(i))
FairExit == InitExit /\ [][Next]_vars /\ Fairness
\* the same scheduling where neither a command nor a shutdown takes place
FairnessRing ==
  /\ WF_vars(Coordinator)
  /\ WF_vars(CtlOpen \/ CtlLoop)
  /\ \A i \in Chans : WF_vars(RInit(i) \/ RLoop(i) \/ RConfig(i) \/ RBarrier(i) \/ RAsync(i)
                                \/ CbBegin(i) \/ CbCopy(i) \/ CbInc(i))
FairQuiet == InitQuiet /\ [][NextRing]_vars /\ FairnessRing
SpecRearm == InitRearm /\ [][NextCtl]_vars
SpecNoise == InitNoise /\ [][NextCtl]_vars
NextSlow == NextCtl \/ WriterPayload
\* a process ended by a fault takes no further step
Alive == mpc # "fault"
NextGpio == \/ Alive /\ Callback
            \/ Alive /\ Startup
            \/ Alive /\ (CtlOpen \/ CtlLoop \/ Control)
            \/ Alive /\ Coordinator
SpecGpio == InitGpio /\ [][NextGpio]_vars
SpecSlow == InitSlow /\ [][NextSlow]_vars

\* ------------------------------------------------------------------------
\* properties
\* ------------------------------------------------------------------------
Written == last.seq >= 0
NonDummy == Written /\ last.payload # <<>>
Index == last.hdr.daq_block_index

\* C1 (as claimed): every channel's slice of a non-dummy frame k is the block
\* that channel's callback stored when its counter was k, whole and not overwritten
C1_SameIndexAlways ==
  NonDummy => \A i \in Chans : last.payload[i].blk = Index /\ ~last.payload[i].torn

\* C1 (amended): the same, for the frames written while every channel's write
\* counter is less than k + NUM_BUFF
C1_SameIndexInRing ==
  (NonDummy /\ last.inring) =>
     \A i \in Chans : last.payload[i].blk = Index /\ ~last.payload[i].torn
C1_Witness == NonDummy /\ last.inring /\ Index = NUM_BUFF

\* C7: bit i of adc_overdrive_flags is set iff channel i's payload of that
\* frame holds a byte 0xFF
C7_OverdriveOfPayload ==
  NonDummy => \A i \in Chans : (i \in last.hdr.adc_overdrive_flags) <=> last.payload[i].ff

Dummy == last.hdr.frame_type = "DUMMY"

\* C2: the payload octets written after a header number
\* active_ant_chs * 2 * cpi_length of that header; a DUMMY frame has
\* cpi_length = 0, data_type = 0 and no payload
C2_PayloadMatchesHeader ==
  Written =>
    /\ last.octets = last.hdr.active_ant_chs * 2 * last.hdr.cpi_length
    /\ Dummy => (last.octets = 0 /\ last.hdr.cpi_length = 0 /\ last.hdr.data_type = 0)

C4_DummyAfterCommand ==
  (Written /\ last.cmd >= 0 /\ last.cmd < NO_DUMMY_FRAMES) =>
    (Dummy /\ last.hdr.data_type = 0 /\ last.hdr.cpi_length = 0 /\ last.octets = 0)

\* C5: after several commands latched between two frames and none later, the
\* next NO_DUMMY_FRAMES frames are DUMMY and the frame after them is not
C5_OneWindowPerBurst ==
  (Written /\ last.burst >= 2) =>
    /\ (last.any >= 0 /\ last.any < NO_DUMMY_FRAMES) => Dummy
    /\ last.any = NO_DUMMY_FRAMES => ~Dummy

\* C6: a frame that is not DUMMY is CAL iff its noise_source_state field is 1
\* and DATA otherwise, with data_type 1 and cpi_length samples_per_block
C6_CalIffNoise ==
  (Written /\ ~Dummy) =>
    /\ last.hdr.frame_type = (IF last.hdr.noise_source_state = 1 THEN "CAL" ELSE "DATA")
    /\ last.hdr.data_type = 1
    /\ last.hdr.cpi_length = DaqBufferSize

\* C8: if_gains[i] of every frame is the gain applied last with success to
\* channel i's tuner
C8_GainIsApplied == Written => \A i \in Chans : last.hdr.if_gains[i] = last.tuner[i]

\* C9 (as claimed): no frame is written once command 2 has set exit_flag
C9_NoFrameAfterExit == signal = "2" => win.afterexit = 0
\* C9 (amended): at most one frame is written once exit_flag is set
C9_OneFrameAfterExit == win.afterexit <= 1
C9_Witness == win.afterexit = 1 /\ mpc = "returned"

\* C10: once exit_flag is set, main joins every thread and returns 0
C10_ExitTerminates == (exit_flag = 1) ~> (mpc = "returned")

\* C11: a byte other than r, c, g, n, f, 2 changes nothing: while no known
\* command has been received the dummy window stays closed, the dummy counter
\* stays 0 and no frame written is DUMMY
C11_UnknownByteIgnored ==
  (win.cmd = -1 /\ exit_flag = 0) =>
    /\ en_dummy_frame = 0 /\ dummy_frame_cntr = 0
    /\ Written => ~Dummy

\* C12: no failure of a driver call ends the program: main never takes the
\* return -1 of the shutdown loop
C12_DriverFailureNeverAborts == mpc # "aborted"

\* C13: a command latched before frame k is applied to the tuners only after
\* a frame has been written since its latch, and the frames k+1 .. k+NO_DUMMY_FRAMES
\* are DUMMY frames
C13_DummyAfterApply ==
  /\ ~win.early
  /\ (Written /\ last.cmd >= 1 /\ last.cmd <= NO_DUMMY_FRAMES) => Dummy

\* reader i is between its return from rtlsdr_read_async and the barrier
Reconfiguring(i) == round[i] >= 1 /\ rpc[i] \in {"loop", "config", "arrive"}

\* the coordinator is in the hot part of its control step with a change to make
HotChange == mpc = "tune" /\ (center_freq_change_flag = 1 \/ gain_change_flag = 1)

C14_NoOverlap == ~(HotChange /\ \E i \in Chans : Reconfiguring(i))

\* a step that changes a receiver record is the coordinator's control step or
\* the configuration of that record's reader thread
C14_Writers ==
  rtl_receivers' # rtl_receivers =>
    \/ mpc = "tune" /\ mpc' = "loop"
    \/ \E i \in Chans : /\ rpc[i] = "config" /\ rpc'[i] = "arrive"
                         /\ \A j \in Chans \ {i} : rtl_receivers'[j] = rtl_receivers[j]

\* C14: center_freq, gain and sample_rate of a receiver record are written
\* only by the coordinator's control step and by the record's reader thread
\* while it configures, and the coordinator never makes a hot change while a
\* reader is between its return from the asynchronous read and the barrier
C14_ParameterWriters == [](C14_NoOverlap) /\ [][C14_Writers]_vars

\* every reader has configured again after the first round and is streaming
ReArmed == \A i \in Chans : round[i] >= 2 /\ rpc[i] = "async" /\ ~dev[i].cancel

\* C15: when an r was pending together with a c or a g in one control step,
\* then once the readers have re-armed every tuner and every receiver record
\* hold the frequency, rate and gain of the r command
C15_RetuneSubsumes ==
  (win.both /\ ReArmed) =>
    \A i \in Chans :
      /\ dev[i].freq = RetuneFreq /\ dev[i].rate = RetuneRate /\ dev[i].gain = RetuneGain
      /\ rtl_receivers[i] = [gain |-> RetuneGain, center_freq |-> RetuneFreq,
                             sample_rate |-> RetuneRate]

\* C16: a reader that has passed the barrier of a round (and may call the
\* asynchronous read) finds every reader thread with its configuration of that
\* round finished and its barrier call of that round made
C16_BarrierBeforeAsync ==
  \A i, j \in Chans :
    rpc[i] \in {"armed", "async"} =>
      \/ round[j] > round[i]
      \/ round[j] = round[i] /\ rpc[j] \notin {"arrive", "barrier"}
C16_Witness == win.rt >= 1 /\ \A i \in Chans : rpc[i] = "async" /\ round[i] = 2

\* after a retune-restart a reader waits at the barrier while another reader
\* streams with no cancel requested, no retune pending and no command to come
Stranded ==
  /\ win.rt >= 1 /\ exit_flag = 0
  /\ reconfig_trigger = 0 /\ cpc = "read" /\ fifo = <<>>
  /\ \E i, j \in Chans : rpc[i] = "barrier" /\ rpc[j] = "async" /\ ~dev[j].cancel

\* a stranded reader stays stranded whatever step is taken next: the streaming
\* reader returns only after a cancel, which only a further r command requests
StrandedForever == [][Stranded => Stranded']_vars

\* C17: after an r command has been applied every reader passes the barrier and
\* streams again: no reader is left at the barrier for ever
C17_NoReaderStranded == ~Stranded

\* C18: no wake-up is lost: whenever every channel's write counter exceeds
\* read_buff_ind and the frame read_buff_ind is not yet written, that frame is
\* written eventually, also when no further callback or command arrives
C18_NoLostWakeup ==
  (DataReady(buff_ind, read_buff_ind) /\ win.frames = read_buff_ind)
     ~> (win.frames > read_buff_ind)

\* the coordinator writes the payload of a DATA or CAL frame in this step
Emits == mpc = "send" /\ mpc' = "post" /\ en_dummy_frame = 0

\* what channel i contributes to that payload is the block its callback stored
\* when its write counter was read_buff_ind
RoundTrip(i) == last'.payload[i].blk = read_buff_ind /\ ~last'.payload[i].torn

\* C19 (as claimed): the round trip holds for every channel whose write counter
\* is at most NUM_BUFF ahead of read_buff_ind when the slot is read
C19_RoundTripWithinRing ==
  [][Emits => \A i \in Chans : buff_ind[i] - read_buff_ind <= NUM_BUFF => RoundTrip(i)]_vars

\* C19 (amended): the round trip holds for every channel whose write counter is
\* less than NUM_BUFF ahead of read_buff_ind when the slot is read
C19_RoundTripInsideRing ==
  [][Emits => \A i \in Chans : buff_ind[i] - read_buff_ind < NUM_BUFF => RoundTrip(i)]_vars
C19_Witness ==
  /\ mpc = "post" /\ NonDummy /\ Index >= 1
  /\ \E i \in Chans : /\ buff_ind[i] - read_buff_ind = NUM_BUFF - 1
                       /\ last.payload[i].blk = Index /\ cbpc[i] = "copying"

\* steps in which the control thread, resp. the coordinator, reads or writes the
\* control latch (their loop tests of exit_flag included)
CtlAccess == cpc \in {"loop", "dispatch", "dummy"} /\ cpc' # cpc
MainAccess ==
  /\ mpc \in {"loop", "hdr_noise", "hdr_type", "send", "post", "apply", "tune"}
  /\ mpc' # mpc
\* the coordinator calls pthread_cond_wait
MainWaitCall == mpc = "wait" /\ mpc' = "waiting"

\* C20: the control thread and the coordinator own buff_ind_mutex in every step
\* that reads or writes the control latch, and the coordinator owns it in
\* every call of pthread_cond_wait
C20_LatchUnderMutex ==
  [][/\ CtlAccess => mutex = "ctl"
     /\ MainAccess => mutex = "main"
     /\ MainWaitCall => mutex = "main"]_vars

\* every reader thread has just been released from rtl_init_barrier and none
\* has entered rtlsdr_read_async yet
Released == \A i \in Chans : rpc[i] = "armed"

\* C21: each time the readers are released from the barrier (the initial start
\* and every re-arm after a retune-restart) all channels have the same write
\* counter buff_ind
C21_AlignedAtRelease == Released => \A i, j \in Chans : buff_ind[i] = buff_ind[j]

\* the control thread waits in an fread of a payload word with buff_ind_mutex locked
BlockedUnderMutex == AwaitsPayload /\ mutex = "ctl"

\* the coordinator has been signalled and cannot return from pthread_cond_wait
CoordinatorHeld == mpc = "waiting" /\ woken /\ DataReady(buff_ind, read_buff_ind)

\* until the writer supplies a payload word the control thread keeps the mutex
\* and the signalled coordinator stays in its wait: no frame is written
HeldWhileBlocked ==
  [][(BlockedUnderMutex /\ CoordinatorHeld /\ unwritten' = unwritten)
       => (BlockedUnderMutex' /\ CoordinatorHeld' /\ win'.frames = win.frames)]_vars

\* C22: the control thread never waits for a payload word of r, c or g while it
\* owns buff_ind_mutex, so a late payload cannot keep the signalled coordinator
\* from returning from its wait
C22_NoPipeReadUnderMutex == ~(BlockedUnderMutex /\ CoordinatorHeld)

\* the coordinator writes a frame whose header has frame type t
EmitsType(t) == mpc = "send" /\ mpc' = "post" /\ iq_header.frame_type = t

\* the state the last rtlsdr_set_gpio call left on the control channel's device
NoiseGpio == dev[env.ctr_channel_dev_index].gpio

\* C23: with noise-source control enabled, the noise-source GPIO of the control
\* channel is on whenever a CAL frame is written and off whenever a DATA frame
\* is written
C23_GpioMatchesFrameType ==
  [][env.en_noise_source_ctr = 1 =>
       /\ EmitsType("CAL") => NoiseGpio = 1
       /\ EmitsType("DATA") => NoiseGpio = 0]_vars

\* the coordinator's control step switches the noise source
NoiseTransition == mpc = "tune" /\ mpc' # mpc /\ NoiseChange

\* C24: on a noise-source transition every receiver record the coordinator
\* dereferences (the control channel's and, with more than 4 channels, record 7)
\* has an index in 0 .. ch_no - 1
C24_NoiseRecordsInRange ==
  [][NoiseTransition => NoiseRecords(ChNo, env.ctr_channel_dev_index) \subseteq Chans]_vars

====
